---- MODULE Spec2Model ----
(***************************************************************************)
(* Model of src/wasm/libsais_wasm.c: a suffix-array index over a byte      *)
(* buffer (create_index / free_index), the binary searches over the        *)
(* suffix order (compare_suffix, lower_bound, upper_bound) and the two     *)
(* queries built on them (count_matches, find_all), together with the      *)
(* malloc/free discipline of the handles the caller holds.                 *)
(*                                                                         *)
(* A pointer is a block number (NULL is 0).  The caller holds one index    *)
(* handle and one result-buffer handle; a handle keeps its value after the *)
(* block it names has been freed, as a C pointer does.                     *)
(***************************************************************************)
EXTENDS Integers, Sequences, FiniteSets, TLC

VARIABLES
    handle,   \* the SaisIndex* the caller holds (NULL, live or dangling)
    obj,      \* the SaisIndex struct handle points to: data, sa, length
    heap,     \* live: the blocks allocated and not freed; brk: blocks handed out
    rb,       \* the int32_t* result buffer the caller holds
    rbmem,    \* the int32_t cells of the result buffer
    op,       \* the exported function called last
    arg,      \* its arguments
    ret,      \* its return value
    access,   \* caller-supplied pointers the call dereferenced or freed
    allocs,   \* blocks the call obtained from malloc, in order
    frees,    \* blocks the call passed to free, in order
    pre       \* heap and result cells as they were when the call began

vars == <<handle, obj, heap, rb, rbmem, op, arg, ret, access, allocs, frees, pre>>

(* ------------------------------ bounds -------------------------------- *)
MaxLen == 3        \* longest buffer indexed
MaxNeedle == 2     \* longest needle
MaxCap == 2        \* largest result buffer allocated
MaxBlocks == 5     \* heap blocks malloc can hand out in one run

NULL == 0

\* the byte values buffers and needles are drawn from
Bytes == {97, 98}
Blocks == 1 .. MaxBlocks

ByteSeqs(n) == UNION {[1 .. k -> Bytes] : k \in 1 .. n}

Min(a, b) == IF a < b THEN a ELSE b

Range(s) == {s[i] : i \in 1 .. Len(s)}

\* malloc's cells are uninitialised; positions are never negative
Uninit == -1

(* --------------------------- heap primitives -------------------------- *)
\* malloc: NULL when the allocator fails, else a block never handed out
\* before (a block number names one allocation, so that a pointer to a
\* freed block stays recognisable)
malloc(hp, fail) ==
    IF fail \/ hp.brk >= MaxBlocks THEN NULL ELSE hp.brk + 1

\* the heap after malloc returned block b (NULL: unchanged)
allocated(hp, b) ==
    IF b = NULL THEN hp ELSE [live |-> hp.live \cup {b}, brk |-> b]

\* the heap after free(b) for each b of the sequence bs
released(hp, bs) == [hp EXCEPT !.live = @ \ Range(bs)]

(* ------------------------ external suffix sorter ---------------------- *)
\* memcmp(a + off, b, n): difference of the first differing unsigned bytes
RECURSIVE memcmp(_, _, _, _)
memcmp(a, off, b, n) ==
    IF n <= 0 THEN 0
    ELSE IF a[off + 1] # b[1] THEN a[off + 1] - b[1]
    ELSE memcmp(a, off + 1, Tail(b), n - 1)

\* byte-wise lexicographic order of two suffixes of data; a suffix that is
\* a proper prefix of another sorts first
SuffixLess(data, p, q) ==
    LET n == Len(data)
        k == Min(n - p, n - q)
        c == memcmp(data, p, SubSeq(data, q + 1, q + k), k)
    IN  IF c # 0 THEN c < 0 ELSE (n - p) < (n - q)

\* the suffix order s with the suffix starting at p put in its place
RECURSIVE InsertSuffix(_, _, _)
InsertSuffix(data, s, p) ==
    IF s = <<>> THEN <<p>>
    ELSE IF SuffixLess(data, p, Head(s)) THEN <<p>> \o s
    ELSE <<Head(s)>> \o InsertSuffix(data, Tail(s), p)

RECURSIVE SortSuffixes(_, _)
SortSuffixes(data, k) ==
    IF k = 0 THEN <<>> ELSE InsertSuffix(data, SortSuffixes(data, k - 1), k - 1)

\* libsais(T, SA, n, 0, NULL) with status 0: SA is the suffix array of T,
\* the offsets 0 .. n-1 in the order of their suffixes
libsais(data) == SortSuffixes(data, Len(data))

\* the statuses libsais can return: 0, -1 (bad argument), -2 (no memory)
SortStatus == {0, -1, -2}

\* how the three mallocs and the sorter of one create_index call turn out:
\* the set of mallocs that fail (at most one is reached) and the status
Outcomes == {<<{}, st>> : st \in SortStatus} \cup {<<{k}, 0>> : k \in 1 .. 3}

(* ------------------------------ the index ----------------------------- *)
NoObj == [data |-> <<>>, sa |-> <<>>, length |-> 0, dataBlk |-> NULL, saBlk |-> NULL]

NoBuf == [null |-> TRUE, bytes |-> <<>>]

NoArg == [index |-> NULL, buffer |-> NoBuf, length |-> 0,
          needle |-> NoBuf, needle_len |-> 0, start |-> 0, end |-> 0,
          max_count |-> 0, result_buffer |-> NULL, buffer_capacity |-> 0,
          count |-> 0]

\* a slip in the second failure path: the copy of the buffer is not freed
free_on_sa_failure_leak(index, data) == <<index>>

\* the frees of create_index's three failure paths, in source order
free_on_data_failure(index) == <<index>>
free_on_sa_failure(index, data) == <<data, index>>
free_on_sort_failure(index, data, sa) == <<sa, data, index>>

\* create_index(buffer, length).  fail is the set of malloc calls (1, 2, 3)
\* that return NULL, status is what libsais returns, junk is what memcpy
\* reads when buffer is NULL (address 0 of the linear memory).
create_index(buffer, length, hp, fail, status, junk) ==
    LET none == [ret |-> NULL, obj |-> NoObj, heap |-> hp,
                 allocs |-> <<>>, frees |-> <<>>, access |-> {}]
    IN
    IF length <= 0 THEN none
    ELSE
    LET index == malloc(hp, 1 \in fail) IN
    IF index = NULL THEN none
    ELSE
    LET h1 == allocated(hp, index)
        data == malloc(h1, 2 \in fail)
    IN
    IF data = NULL
    THEN [none EXCEPT !.allocs = <<index>>,
                      !.frees = free_on_data_failure(index),
                      !.heap = released(h1, free_on_data_failure(index))]
    ELSE
    LET h2 == allocated(h1, data)
        copied == IF buffer.null THEN junk ELSE SubSeq(buffer.bytes, 1, length)
        touched == IF buffer.null THEN {NULL} ELSE {}
        sa == malloc(h2, 3 \in fail)
    IN
    IF sa = NULL
    THEN [none EXCEPT !.allocs = <<index, data>>,
                      !.frees = free_on_sa_failure(index, data),
                      !.heap = released(h2, free_on_sa_failure(index, data)),
                      !.access = touched]
    ELSE
    LET h3 == allocated(h2, sa) IN
    IF status # 0
    THEN [none EXCEPT !.allocs = <<index, data, sa>>,
                      !.frees = free_on_sort_failure(index, data, sa),
                      !.heap = released(h3, free_on_sort_failure(index, data, sa)),
                      !.access = touched]
    ELSE [ret |-> index,
          obj |-> [data |-> copied, sa |-> libsais(copied), length |-> length,
                   dataBlk |-> data, saBlk |-> sa],
          heap |-> h3, allocs |-> <<index, data, sa>>, frees |-> <<>>,
          access |-> touched]

\* free_index(index): the blocks passed to free, in order
free_index(index, o) ==
    IF index # NULL
    THEN (IF o.dataBlk # NULL THEN <<o.dataBlk>> ELSE <<>>)
         \o (IF o.saBlk # NULL THEN <<o.saBlk>> ELSE <<>>)
         \o <<index>>
    ELSE <<>>

\* get_index_length(index)
get_index_length(index, o) == IF index # NULL THEN o.length ELSE 0

(* --------------------------- bound finding ---------------------------- *)
\* a slip in compare_suffix: a suffix shorter than the needle that agrees
\* with it as far as it goes is taken for a match
compare_suffix_short_matches(o, pos, needle, needle_len) ==
    LET remaining == o.length - pos
        compare_len == IF needle_len < remaining THEN needle_len ELSE remaining
    IN  memcmp(o.data, pos, needle, compare_len)

\* compare_suffix(index, pos, needle, needle_len)
compare_suffix(o, pos, needle, needle_len) ==
    LET remaining == o.length - pos
        compare_len == IF needle_len < remaining THEN needle_len ELSE remaining
        cmp == memcmp(o.data, pos, needle, compare_len)
    IN  IF cmp # 0 THEN cmp
        ELSE IF remaining < needle_len THEN -1
        ELSE 0

\* a slip in lower_bound: the test of upper_bound
lower_goes_right_le(c) == c <= 0

\* the test of lower_bound's loop: the suffix goes to the low side
lower_goes_right(c) == c < 0

\* the test of upper_bound's loop
upper_goes_right(c) == c <= 0

RECURSIVE lower_loop(_, _, _, _, _)
lower_loop(o, needle, needle_len, lo, hi) ==
    IF lo < hi
    THEN LET mid == lo + (hi - lo) \div 2
             suffix_pos == o.sa[mid + 1]
         IN  IF lower_goes_right(compare_suffix(o, suffix_pos, needle, needle_len))
             THEN lower_loop(o, needle, needle_len, mid + 1, hi)
             ELSE lower_loop(o, needle, needle_len, lo, mid)
    ELSE lo

lower_bound(o, needle, needle_len) == lower_loop(o, needle, needle_len, 0, o.length)

RECURSIVE upper_loop(_, _, _, _, _)
upper_loop(o, needle, needle_len, lo, hi) ==
    IF lo < hi
    THEN LET mid == lo + (hi - lo) \div 2
             suffix_pos == o.sa[mid + 1]
         IN  IF upper_goes_right(compare_suffix(o, suffix_pos, needle, needle_len))
             THEN upper_loop(o, needle, needle_len, mid + 1, hi)
             ELSE upper_loop(o, needle, needle_len, lo, mid)
    ELSE lo

upper_bound(o, needle, needle_len) == upper_loop(o, needle, needle_len, 0, o.length)

(* ------------------------------- queries ------------------------------ *)
\* count_matches(index, needle, needle_len)
count_matches(index, o, needle, needle_len) ==
    IF index = NULL \/ needle.null \/ needle_len <= 0 THEN 0
    ELSE LET lo == lower_bound(o, needle.bytes, needle_len)
             hi == upper_bound(o, needle.bytes, needle_len)
         IN  hi - lo

\* alloc_result_buffer(count)
alloc_result_buffer(count, hp, fail) ==
    IF count <= 0 THEN NULL ELSE malloc(hp, fail)

\* free_result_buffer(buffer): the blocks passed to free
free_result_buffer(buffer) == IF buffer # NULL THEN <<buffer>> ELSE <<>>

\* a slip in the range validation: a negative end is left as it is
normalize_end_no_negative(end, length) == IF end > length THEN length ELSE end

\* find_all's range validation: end and start after the clamps
normalize_end(end, length) == IF end < 0 \/ end > length THEN length ELSE end

normalize_start(start) == IF start < 0 THEN 0 ELSE start

\* a slip in the limit: max_count is ignored
find_all_limit_capacity(max_count, buffer_capacity) == buffer_capacity

\* find_all's limit
find_all_limit(max_count, buffer_capacity) ==
    IF max_count > 0 /\ max_count < buffer_capacity THEN max_count
    ELSE buffer_capacity

\* a slip in the range filter: the end of the needle is not tested
in_range_start_only(pos, needle_len, start, end) == pos >= start

\* find_all's range filter on one position
in_range(pos, needle_len, start, end) == pos >= start /\ pos + needle_len <= end

\* a slip in the collecting loop: one result more than the limit
RECURSIVE find_all_loop_one_more(_, _, _, _, _, _, _, _)
find_all_loop_one_more(o, needle_len, start, end, i, hi, limit, out) ==
    IF i < hi /\ Len(out) <= limit
    THEN LET pos == o.sa[i + 1]
         IN  find_all_loop_one_more(o, needle_len, start, end, i + 1, hi, limit,
                                    IF in_range(pos, needle_len, start, end)
                                    THEN Append(out, pos) ELSE out)
    ELSE out

\* a slip in the collecting loop: the ranks are scanned from hi down to lo
RECURSIVE find_all_loop_backwards(_, _, _, _, _, _, _, _)
find_all_loop_backwards(o, needle_len, start, end, i, hi, limit, out) ==
    IF i < hi /\ Len(out) < limit
    THEN LET pos == o.sa[hi]
         IN  find_all_loop_backwards(o, needle_len, start, end, i, hi - 1, limit,
                                     IF in_range(pos, needle_len, start, end)
                                     THEN Append(out, pos) ELSE out)
    ELSE out

\* find_all's collecting loop: out holds result_buffer[0 .. count)
RECURSIVE find_all_loop(_, _, _, _, _, _, _, _)
find_all_loop(o, needle_len, start, end, i, hi, limit, out) ==
    IF i < hi /\ Len(out) < limit
    THEN LET pos == o.sa[i + 1]
         IN  find_all_loop(o, needle_len, start, end, i + 1, hi, limit,
                           IF in_range(pos, needle_len, start, end)
                           THEN Append(out, pos) ELSE out)
    ELSE out

\* find_all(index, needle, needle_len, start, end, max_count, result_buffer,
\* buffer_capacity): the count returned and the cells of the result buffer
find_all(index, o, needle, needle_len, start, end, max_count, result_buffer, mem, buffer_capacity) ==
    IF index = NULL \/ needle.null \/ needle_len <= 0
       \/ result_buffer = NULL \/ buffer_capacity <= 0
    THEN [ret |-> 0, mem |-> mem, index_read |-> FALSE]
    ELSE
    LET e == normalize_end(end, o.length)
        s == normalize_start(start)
    IN
    IF s >= e THEN [ret |-> 0, mem |-> mem, index_read |-> TRUE]
    ELSE
    LET lo == lower_bound(o, needle.bytes, needle_len)
        hi == upper_bound(o, needle.bytes, needle_len)
        limit == find_all_limit(max_count, buffer_capacity)
        out == find_all_loop(o, needle_len, s, e, lo, hi, limit, <<>>)
    IN  [ret |-> Len(out),
         mem |-> out \o SubSeq(mem, Len(out) + 1, Len(mem)),
         index_read |-> TRUE]

(* --------------------------- the caller's calls ----------------------- *)
\* a pointer to a block that has been freed
Dangling(hp, p) == p # NULL /\ p \notin hp.live

\* the call just made dereferenced or freed a pointer that was NULL or
\* dangling: the behaviour of the program is undefined from here on
UndefinedBehaviour == access \ pre.live # {}

\* what a read through a dangling pointer can yield: the stale value or
\* whatever the allocator left in the block
StaleOrJunk(v) == {v, 0, -1}

Snapshot == [live |-> heap.live, rbmem |-> rbmem]

EmptyHeap == [live |-> {}, brk |-> 0]

Init ==
    /\ handle = NULL
    /\ obj = NoObj
    /\ heap = EmptyHeap
    /\ rb = NULL
    /\ rbmem = <<>>
    /\ op = "none"
    /\ arg = NoArg
    /\ ret = 0
    /\ access = {}
    /\ allocs = <<>>
    /\ frees = <<>>
    /\ pre = [live |-> {}, rbmem |-> <<>>]

\* the buffers the calls of this specification pass with a given length:
\* NULL, or length bytes (their values play no part in the life of a handle)
BuffersOf(length) ==
    {NoBuf, [null |-> FALSE, bytes |-> [i \in 1 .. (IF length > 0 THEN length ELSE 0) |-> 97]]}

\* handle = create_index(buffer, length)
CreateIndexCall(buffer, length, fail, status, junk) ==
    LET r == create_index(buffer, length, heap, fail, status, junk) IN
    /\ handle' = r.ret
    /\ obj' = r.obj
    /\ heap' = r.heap
    /\ op' = "create_index"
    /\ arg' = [NoArg EXCEPT !.buffer = buffer, !.length = length]
    /\ ret' = r.ret
    /\ access' = r.access
    /\ allocs' = r.allocs
    /\ frees' = r.frees
    /\ pre' = Snapshot
    /\ UNCHANGED <<rb, rbmem>>

\* free_index(index)
FreeIndexCall(index) ==
    LET fs == free_index(index, obj) IN
    /\ heap' = released(heap, fs)
    /\ op' = "free_index"
    /\ arg' = [NoArg EXCEPT !.index = index]
    /\ ret' = 0
    /\ access' = Range(fs)
    /\ allocs' = <<>>
    /\ frees' = fs
    /\ pre' = Snapshot
    /\ UNCHANGED <<handle, obj, rb, rbmem>>

\* get_index_length(index)
GetIndexLengthCall(index) ==
    LET v == get_index_length(index, obj) IN
    /\ ret' \in (IF Dangling(heap, index) THEN StaleOrJunk(v) ELSE {v})
    /\ op' = "get_index_length"
    /\ arg' = [NoArg EXCEPT !.index = index]
    /\ access' = IF index # NULL THEN {index} ELSE {}
    /\ allocs' = <<>>
    /\ frees' = <<>>
    /\ pre' = Snapshot
    /\ UNCHANGED <<handle, obj, heap, rb, rbmem>>

\* count_matches(index, needle, needle_len)
CountMatchesCall(index, needle, needle_len) ==
    LET v == count_matches(index, obj, needle, needle_len)
        read == index # NULL /\ ~needle.null /\ needle_len > 0
    IN
    /\ ret' \in (IF read /\ Dangling(heap, index) THEN StaleOrJunk(v) ELSE {v})
    /\ op' = "count_matches"
    /\ arg' = [NoArg EXCEPT !.index = index, !.needle = needle, !.needle_len = needle_len]
    /\ access' = IF read THEN {index, obj.dataBlk, obj.saBlk} ELSE {}
    /\ allocs' = <<>>
    /\ frees' = <<>>
    /\ pre' = Snapshot
    /\ UNCHANGED <<handle, obj, heap, rb, rbmem>>

\* rb = alloc_result_buffer(count)
AllocResultBufferCall(count, fail) ==
    LET b == alloc_result_buffer(count, heap, fail) IN
    /\ rb' = b
    /\ rbmem' = IF b = NULL THEN <<>> ELSE [i \in 1 .. count |-> Uninit]
    /\ heap' = allocated(heap, b)
    /\ op' = "alloc_result_buffer"
    /\ arg' = [NoArg EXCEPT !.count = count]
    /\ ret' = b
    /\ access' = {}
    /\ allocs' = IF b = NULL THEN <<>> ELSE <<b>>
    /\ frees' = <<>>
    /\ pre' = Snapshot
    /\ UNCHANGED <<handle, obj>>

\* free_result_buffer(buffer): the cells are gone with the block
FreeResultBufferCall(buffer) ==
    LET fs == free_result_buffer(buffer) IN
    /\ heap' = released(heap, fs)
    /\ rbmem' = IF fs = <<>> THEN rbmem ELSE <<>>
    /\ op' = "free_result_buffer"
    /\ arg' = [NoArg EXCEPT !.result_buffer = buffer]
    /\ ret' = 0
    /\ access' = Range(fs)
    /\ allocs' = <<>>
    /\ frees' = fs
    /\ pre' = Snapshot
    /\ UNCHANGED <<handle, obj, rb>>

\* find_all(index, needle, needle_len, start, end, max_count, result_buffer,
\* buffer_capacity)
FindAllCall(index, needle, needle_len, start, end, max_count, result_buffer, buffer_capacity) ==
    LET r == find_all(index, obj, needle, needle_len, start, end, max_count,
                      result_buffer, rbmem, buffer_capacity)
    IN
    /\ ret' \in (IF r.index_read /\ Dangling(heap, index)
                 THEN StaleOrJunk(r.ret) ELSE {r.ret})
    /\ rbmem' = r.mem
    /\ op' = "find_all"
    /\ arg' = [NoArg EXCEPT !.index = index, !.needle = needle,
                            !.needle_len = needle_len,
                            !.start = start, !.end = end, !.max_count = max_count,
                            !.result_buffer = result_buffer,
                            !.buffer_capacity = buffer_capacity]
    /\ access' = (IF r.index_read THEN {index, obj.dataBlk, obj.saBlk} ELSE {})
                 \cup (IF r.ret > 0 THEN {result_buffer} ELSE {})
    /\ allocs' = <<>>
    /\ frees' = <<>>
    /\ pre' = Snapshot
    /\ UNCHANGED <<handle, obj, heap, rb>>

(* ---------------- the life of the handles: any order of calls ---------- *)
\* needles the calls of this specification pass: a present one, an empty
\* one and a NULL one
SomeNeedles ==
    {<<[null |-> FALSE, bytes |-> <<97>>], 1>>,
     <<[null |-> FALSE, bytes |-> <<97>>], 0>>,
     <<NoBuf, 1>>}

\* the caller overwrites the handle it holds only when it names no live index
CallCreateIndex ==
    /\ ~UndefinedBehaviour
    /\ handle = NULL \/ Dangling(heap, handle)
    /\ \E length \in {-1, 0, 1, MaxLen} :
       \E out \in (IF length > 0 THEN Outcomes ELSE {<<{}, 0>>}), buffer \in BuffersOf(length) :
       \E junk \in (IF buffer.null /\ length > 0 /\ out[1] \cap {1, 2} = {}
                    THEN {[i \in 1 .. length |-> c] : c \in Bytes} ELSE {<<>>}) :
         CreateIndexCall(buffer, length, out[1], out[2], junk)

CallFreeIndex ==
    /\ ~UndefinedBehaviour
    /\ \E index \in {NULL, handle} : FreeIndexCall(index)

CallGetIndexLength ==
    /\ ~UndefinedBehaviour
    /\ \E index \in {NULL, handle} : GetIndexLengthCall(index)

CallCountMatches ==
    /\ ~UndefinedBehaviour
    /\ \E index \in {NULL, handle}, nd \in SomeNeedles :
         CountMatchesCall(index, nd[1], nd[2])

CallAllocResultBuffer ==
    /\ ~UndefinedBehaviour
    /\ rb = NULL \/ Dangling(heap, rb)
    /\ \E count \in -1 .. MaxCap, fail \in BOOLEAN : AllocResultBufferCall(count, fail)

CallFreeResultBuffer ==
    /\ ~UndefinedBehaviour
    /\ \E buffer \in {NULL, rb} : FreeResultBufferCall(buffer)

\* the capacity passed never exceeds the cells allocated
CallFindAll ==
    /\ ~UndefinedBehaviour
    /\ ~Dangling(heap, rb)
    /\ \E index \in {NULL, handle}, nd \in SomeNeedles, result_buffer \in {NULL, rb} :
       \E buffer_capacity \in {0, IF result_buffer = NULL THEN 1 ELSE Len(rbmem)} :
         FindAllCall(index, nd[1], nd[2], 0, -1, 0, result_buffer, buffer_capacity)

Next ==
    \/ CallCreateIndex
    \/ CallFreeIndex
    \/ CallGetIndexLength
    \/ CallCountMatches
    \/ CallAllocResultBuffer
    \/ CallFreeResultBuffer
    \/ CallFindAll

Spec == Init /\ [][Next]_vars

(* -------- the queries: one call on a built index, every argument ------- *)
\* the state after handle = create_index(bytes, Len(bytes)) and
\* rb = alloc_result_buffer(MaxCap) both succeeded on an empty heap
QueryInit ==
    \E bytes \in ByteSeqs(MaxLen) :
      LET r == create_index([null |-> FALSE, bytes |-> bytes], Len(bytes),
                            EmptyHeap, {}, 0, <<>>)
          b == alloc_result_buffer(MaxCap, r.heap, FALSE)
      IN
      /\ handle = r.ret
      /\ obj = r.obj
      /\ heap = allocated(r.heap, b)
      /\ rb = b
      /\ rbmem = [i \in 1 .. MaxCap |-> Uninit]
      /\ op = "alloc_result_buffer"
      /\ arg = [NoArg EXCEPT !.count = MaxCap]
      /\ ret = b
      /\ access = {}
      /\ allocs = <<b>>
      /\ frees = <<>>
      /\ pre = [live |-> r.heap.live, rbmem |-> <<>>]

\* the needles a caller passes: a pointer (or NULL) and a length
Needles ==
    {<<[null |-> FALSE, bytes |-> b], Len(b)>> : b \in ByteSeqs(MaxNeedle)}
    \cup {<<[null |-> FALSE, bytes |-> <<97>>], n>> : n \in {-1, 0}}
    \cup {<<NoBuf, 1>>}

QueryCountMatches ==
    /\ op = "alloc_result_buffer"
    /\ \E index \in {NULL, handle}, nd \in Needles :
         CountMatchesCall(index, nd[1], nd[2])

\* every range, limit and capacity with a valid index, needle and buffer
\* (n + 1 stands for every start or end beyond the buffer)
QueryFindAll ==
    /\ op = "alloc_result_buffer"
    /\ \E b \in ByteSeqs(MaxNeedle) :
       \E start \in -1 .. (obj.length + 1), end \in -1 .. (obj.length + 1),
          max_count \in -1 .. (MaxCap + 1), buffer_capacity \in 1 .. Len(rbmem) :
         FindAllCall(handle, [null |-> FALSE, bytes |-> b], Len(b), start, end,
                     max_count, rb, buffer_capacity)

\* the calls find_all refuses: a NULL pointer, an empty needle, no capacity
QueryFindAllRefused ==
    /\ op = "alloc_result_buffer"
    /\ \E index \in {NULL, handle}, nd \in Needles, result_buffer \in {NULL, rb} :
       \E buffer_capacity \in -1 .. Len(rbmem), max_count \in {0, 1} :
         /\ \/ index = NULL \/ nd[1].null \/ nd[2] <= 0
            \/ result_buffer = NULL \/ buffer_capacity <= 0
         /\ FindAllCall(index, nd[1], nd[2], 0, -1, max_count,
                        result_buffer, buffer_capacity)

QueryNext ==
    \/ QueryCountMatches
    \/ QueryFindAll
    \/ QueryFindAllRefused

QuerySpec == QueryInit /\ [][QueryNext]_vars

(* ------------------------------ properties ---------------------------- *)
\* needle occurs in data at offset p
IsMatch(data, p, needle) ==
    /\ p + Len(needle) <= Len(data)
    /\ \A k \in 1 .. Len(needle) : data[p + k] = needle[k]

\* the naive linear scan: every offset at which needle occurs
Occurrences(data, needle) == {p \in 0 .. (Len(data) - 1) : IsMatch(data, p, needle)}

\* the last call was a query on a live index with a non-empty needle
LiveIndexAndNeedle ==
    /\ arg.index # NULL
    /\ arg.index \in pre.live
    /\ ~arg.needle.null
    /\ arg.needle_len > 0

ValidCount == op = "count_matches" /\ LiveIndexAndNeedle

ValidFindAll ==
    /\ op = "find_all"
    /\ LiveIndexAndNeedle
    /\ arg.result_buffer # NULL
    /\ arg.buffer_capacity > 0

\* the range find_all works with: end outside [0, n] means n, start below 0
\* means 0
ClampedEnd == IF arg.end < 0 \/ arg.end > obj.length THEN obj.length ELSE arg.end

ClampedStart == IF arg.start < 0 THEN 0 ELSE arg.start

\* the limit of section 4.5: min(maxCount, capacity) when maxCount > 0
Limit == IF arg.max_count > 0 THEN Min(arg.max_count, arg.buffer_capacity) ELSE arg.buffer_capacity

\* the positions the last find_all call wrote
Written == SubSeq(rbmem, 1, ret)

\* the match positions inside the range find_all works with
Qualifying ==
    {p \in Occurrences(obj.data, arg.needle.bytes) :
        ClampedStart <= p /\ p + arg.needle_len <= ClampedEnd}

\* C1: count_matches on a built index with a non-empty needle returns the
\* number of offsets at which the needle occurs, as a naive scan counts them
\* (overlapping occurrences counted separately, absent needles giving 0).
C1_CountIsNaiveCount ==
    ValidCount => ret = Cardinality(Occurrences(obj.data, arg.needle.bytes))

\* overlapping occurrences: "aaa" holds "aa" at offsets 0 and 1
C1_Witness ==
    /\ ValidCount
    /\ obj.data = <<97, 97, 97>>
    /\ arg.needle.bytes = <<97, 97>>
    /\ ret = 2

\* C2 as stated: every position find_all writes is a match and lies in the
\* range [start, end) exactly as the caller passed it.
C2_InCallerRange ==
    ValidFindAll =>
        \A i \in 1 .. ret :
            /\ IsMatch(obj.data, rbmem[i], arg.needle.bytes)
            /\ arg.start <= rbmem[i]
            /\ rbmem[i] + arg.needle_len <= arg.end

\* C2 amended: every position find_all writes is a match and lies in the
\* range the call works with, start <= p and p + len(needle) <= e, where e
\* is the caller's end when 0 <= end <= n and n otherwise.
C2_InClampedRange ==
    ValidFindAll =>
        \A i \in 1 .. ret :
            /\ IsMatch(obj.data, rbmem[i], arg.needle.bytes)
            /\ arg.start <= rbmem[i]
            /\ rbmem[i] + arg.needle_len <= ClampedEnd

\* a call with end = -1 and a start inside the buffer that returns a position
C2_Witness ==
    /\ ValidFindAll
    /\ arg.end < 0
    /\ arg.start > 0
    /\ ret > 0

\* C3: the count find_all returns is the number of cells it wrote and equals
\* min(limit, Q), Q the number of match positions inside the range the call
\* works with; below the limit every such position is in the result.
C3_NothingOmitted ==
    ValidFindAll =>
        /\ ret = Min(Limit, Cardinality(Qualifying))
        /\ \A i \in 1 .. Len(rbmem) :
              IF i <= ret THEN rbmem[i] # Uninit ELSE rbmem[i] = pre.rbmem[i]
        /\ ret < Limit => Qualifying \subseteq Range(Written)

\* fewer results than the limit although maxCount and the range both bite
C3_Witness ==
    /\ ValidFindAll
    /\ arg.max_count = 2
    /\ arg.buffer_capacity = 2
    /\ ret = 1
    /\ Cardinality(Occurrences(obj.data, arg.needle.bytes)) = 3

\* C4 as stated: find_all never returns more than min(maxCount, capacity),
\* whatever maxCount and capacity are (read here on the calls that pass no
\* negative maxCount or capacity, where 0 results could not satisfy it).
C4_AtMostMin ==
    (op = "find_all" /\ arg.max_count >= 0 /\ arg.buffer_capacity >= 0) =>
        ret <= Min(arg.max_count, arg.buffer_capacity)

\* C4 amended: find_all returns at most min(maxCount, capacity) when
\* maxCount > 0, at most capacity when maxCount <= 0, and 0 when
\* capacity <= 0.
C4_AtMostLimit ==
    op = "find_all" => IF arg.buffer_capacity <= 0 THEN ret = 0 ELSE ret <= Limit

\* maxCount = 0 means no limit but the capacity: two results are returned
C4_Witness ==
    /\ ValidFindAll
    /\ arg.max_count = 0
    /\ ret = 2

\* C5: lower_bound <= upper_bound, and the ranks r in [lower_bound,
\* upper_bound) are exactly the ranks with compare_suffix(sa[r], needle) = 0,
\* which are exactly the ranks whose suffix starts with the needle.
C5_BoundConsistency ==
    ValidCount =>
        LET lo == lower_bound(obj, arg.needle.bytes, arg.needle_len)
            hi == upper_bound(obj, arg.needle.bytes, arg.needle_len)
        IN  /\ lo <= hi
            /\ ret = hi - lo
            /\ \A r \in 0 .. (obj.length - 1) :
                 LET c == compare_suffix(obj, obj.sa[r + 1], arg.needle.bytes, arg.needle_len)
                 IN  /\ (lo <= r /\ r < hi) <=> (c = 0)
                     /\ (c = 0) <=> IsMatch(obj.data, obj.sa[r + 1], arg.needle.bytes)

\* matching ranks strictly inside the suffix order: "aab" and needle "ab"
\* ("aab" < "ab" < "b")
C5_Witness ==
    /\ ValidCount
    /\ obj.length = 3
    /\ lower_bound(obj, arg.needle.bytes, arg.needle_len) = 1
    /\ upper_bound(obj, arg.needle.bytes, arg.needle_len) = 2

\* C6: a create_index call that passed the length check and returns NULL
\* has freed every block it allocated exactly once, and leaves the live
\* allocations as they were before the call.
C6_NoLeakOnFailure ==
    (op = "create_index" /\ arg.length > 0 /\ ret = NULL) =>
        /\ heap.live = pre.live
        /\ Range(frees) = Range(allocs)
        /\ Len(frees) = Len(allocs)
        /\ Cardinality(Range(frees)) = Len(frees)

\* the order array could not be allocated: struct and copy were released
C6_Witness ==
    /\ op = "create_index"
    /\ arg.length > 0
    /\ ret = NULL
    /\ Len(allocs) = 2
    /\ pre.live # {}

\* C7: every exported function answers an invalid input with its safe
\* default (NULL, 0, nothing done), dereferencing no pointer, leaving the
\* heap and the result buffer as they were.
C7_InvalidInputSafe ==
    LET untouched == access = {} /\ rbmem = pre.rbmem /\ heap.live = pre.live
        badNeedle == arg.needle.null \/ arg.needle_len <= 0
    IN
    /\ (op = "create_index" /\ (arg.length <= 0 \/ arg.buffer.null)) =>
          (ret = NULL /\ untouched)
    /\ (op = "get_index_length" /\ arg.index = NULL) => (ret = 0 /\ untouched)
    /\ (op = "count_matches" /\ (arg.index = NULL \/ badNeedle)) =>
          (ret = 0 /\ untouched)
    /\ (op = "find_all" /\ (arg.index = NULL \/ badNeedle
                            \/ arg.result_buffer = NULL \/ arg.buffer_capacity <= 0)) =>
          (ret = 0 /\ untouched)
    /\ (op = "alloc_result_buffer" /\ arg.count <= 0) => (ret = NULL /\ untouched)
    /\ (op = "free_index" /\ arg.index = NULL) => untouched
    /\ (op = "free_result_buffer" /\ arg.result_buffer = NULL) => untouched

\* C8: a query or a release called with a handle whose index has been
\* released touches none of the released blocks (struct, copy, order).
C8_NoUseAfterRelease ==
    (op \in {"get_index_length", "count_matches", "find_all", "free_index"}
     /\ arg.index # NULL /\ arg.index \notin pre.live) =>
        access \cap {arg.index, obj.dataBlk, obj.saBlk} = {}

\* C9: find_all with end < 0 or end > n gives what end = n gives, with
\* start < 0 what start = 0 gives, and returns 0 and writes nothing when the
\* range it works with is empty.
C9_RangeNormalization ==
    ValidFindAll =>
        LET Call(start, end) ==
                find_all(arg.index, obj, arg.needle, arg.needle_len, start, end,
                         arg.max_count, arg.result_buffer, pre.rbmem, arg.buffer_capacity)
            same(r) == r.ret = ret /\ r.mem = rbmem
        IN  /\ (arg.end < 0 \/ arg.end > obj.length) => same(Call(arg.start, obj.length))
            /\ arg.start < 0 => same(Call(0, arg.end))
            /\ ClampedStart >= ClampedEnd => (ret = 0 /\ rbmem = pre.rbmem)

\* both clamps at work in a call that finds the whole buffer's matches
C9_Witness ==
    /\ ValidFindAll
    /\ arg.end < 0
    /\ arg.start < 0
    /\ ret = 2

\* C10: find_all writes the accepted positions in suffix-rank order, none
\* twice, and a smaller limit yields a prefix of what a larger limit yields.
C10_RankOrderPrefix ==
    ValidFindAll =>
        LET Accepted(p) ==
                /\ IsMatch(obj.data, p, arg.needle.bytes)
                /\ ClampedStart <= p
                /\ p + arg.needle_len <= ClampedEnd
            inRankOrder == SelectSeq(obj.sa, Accepted)
            WithLimit(m, c) ==
                find_all(arg.index, obj, arg.needle, arg.needle_len, arg.start, arg.end,
                         m, arg.result_buffer, pre.rbmem, c)
            IsPrefix(r, l) ==
                /\ r.ret = Min(l, ret)
                /\ SubSeq(r.mem, 1, r.ret) = SubSeq(Written, 1, r.ret)
        IN  /\ ret <= Len(inRankOrder)
            /\ Written = SubSeq(inRankOrder, 1, ret)
            /\ Cardinality(Range(Written)) = ret
            \* a smaller limit by way of max_count, and by way of the capacity
            /\ \A l \in 1 .. Limit : IsPrefix(WithLimit(l, arg.buffer_capacity), l)
            /\ \A c \in 1 .. arg.buffer_capacity :
                 IsPrefix(WithLimit(arg.max_count, c), find_all_limit(arg.max_count, c))

\* two results in suffix-rank order that is not ascending offset order
C10_Witness ==
    /\ ValidFindAll
    /\ ret = 2
    /\ rbmem[1] > rbmem[2]

====
